---- MODULE Spec2Model ----
(***************************************************************************)
(* BrandGuard RAG: the multi-tenant retrieval and prompt-assembly pipeline *)
(* of simple_brandguard_demo.py (SimpleBrandGuardRAG) together with the    *)
(* ingestion path of brandguard_rag_solution.py (BrandGuardRAG).           *)
(*                                                                         *)
(* Representation of Python values:                                        *)
(*   - a text that the code tokenizes (Document.content, query) is the     *)
(*     sequence of its whitespace-separated words, i.e. what str.split()   *)
(*     returns; the text itself is those words joined by one blank;        *)
(*   - every other str is a TLA+ string;                                   *)
(*   - a list is a sequence, a dict is a function on its key set;          *)
(*   - a prompt (one long str) is the sequence of the pieces the f-string  *)
(*     concatenates, tokenized texts spliced in word by word.              *)
(*                                                                         *)
(* SimpleBrandGuardRAG and BrandGuardRAG are driven by the same calls:     *)
(* documents is the former's list, collection the rows the latter hands    *)
(* to its vector store, client_profiles the registry both keep alike.      *)
(***************************************************************************)
EXTENDS Integers, Sequences, FiniteSets, TLC

VARIABLES documents, client_profiles, collection, call

vars == <<documents, client_profiles, collection, call>>

(***************************************************************************)
(* Bounds and input sets                                                   *)
(***************************************************************************)
\* the store holds at most MaxDocs documents
MaxDocs == 3

\* default value of retrieve_context's top_k parameter
DefaultTopK == 3

\* Python's None
None == [none |-> TRUE]

Document(content, client_id, doc_type, doc_id) ==
    [content |-> content, client_id |-> client_id, doc_type |-> doc_type,
     doc_id |-> doc_id, source_url |-> None]

ClientProfile(client_id, brand_voice, tone, lexicon, avoid_terms, deliverable_types) ==
    [client_id |-> client_id, brand_voice |-> brand_voice, tone |-> tone,
     lexicon |-> lexicon, avoid_terms |-> avoid_terms,
     deliverable_types |-> deliverable_types]

\* the documents callers ingest: two of alpha's tie on "gas", beta's d1 has
\* the doc_id and the words of alpha's d1
Docs ==
    { Document(<<"gas", "moon">>, "alpha", "technical_spec", "d1"),
      Document(<<"Gas">>,         "alpha", "brand_guide",    "d2"),
      Document(<<"moon">>,        "alpha", "blog_post",      "d3"),
      Document(<<"gas", "moon">>, "beta",  "technical_spec", "d1") }

\* the batches passed to ingest_documents
Batches == { <<d>> : d \in Docs } \cup { <<d, e>> : d \in Docs, e \in Docs }

\* the profiles callers register: two for alpha that differ in every field
Profiles ==
    { ClientProfile("alpha", "technical", "direct", <<"EOA", "gas sponsorship">>,
                    <<"amazing">>, <<"product_update">>),
      ClientProfile("alpha", "casual", "friendly", <<"onchain">>,
                    <<"complex", "amazing">>, <<"blog_post">>),
      ClientProfile("beta", "energetic", "casual", <<"moon">>,
                    <<>>, <<"blog_post">>) }

\* client ids callers query with; "Alpha" differs from "alpha" by case only
ClientIds == {"alpha", "beta", "Alpha"}

Queries == { <<>>, <<"gas">>, <<"gas", "moon">>, <<"Gas", "gas">> }

TopKs == {-1, 0, 1, 2, DefaultTopK}

DeliverableTypes == {"product_update"}

(***************************************************************************)
(* str and list primitives                                                 *)
(***************************************************************************)
\* str.lower() on a word
Lower(w) ==
    CASE w = "Gas"   -> "gas"
      [] w = "Alpha" -> "alpha"
      [] w = "EOA"   -> "eoa"
      [] OTHER       -> w

\* str.upper() on a client id
Upper(w) ==
    CASE w = "alpha" -> "ALPHA"
      [] w = "Alpha" -> "ALPHA"
      [] w = "beta"  -> "BETA"
      [] OTHER       -> w

\* text.lower().split()
RECURSIVE LowerSplit(_)
LowerSplit(text) ==
    IF text = <<>> THEN <<>>
    ELSE <<Lower(Head(text))>> \o LowerSplit(Tail(text))

\* x in list
In(x, list) == \E i \in 1..Len(list) : list[i] = x

\* dict.get(key)
DictGet(dict, key) == IF key \in DOMAIN dict THEN dict[key] ELSE None

\* variant of DictSet: an existing entry is kept (first write wins)
DictSet_KeepFirst(dict, key, value) ==
    [k \in DOMAIN dict \cup {key} |->
        IF k \in DOMAIN dict THEN dict[k] ELSE value]

\* dict[key] = value
DictSet(dict, key, value) ==
    [k \in DOMAIN dict \cup {key} |-> IF k = key THEN value ELSE dict[k]]

\* variant of Slice: one element too many
Slice_OffByOne(list, k) ==
    SubSeq(list, 1, IF k + 1 < Len(list) THEN (IF k + 1 > 0 THEN k + 1 ELSE 0)
                    ELSE Len(list))

\* list[:k], k of either sign
Slice(list, k) ==
    LET n   == Len(list)
        end == IF k >= 0 THEN (IF k < n THEN k ELSE n)
               ELSE (IF n + k > 0 THEN n + k ELSE 0)
    IN  SubSeq(list, 1, end)

(***************************************************************************)
(* register_client / ingest_documents                                      *)
(***************************************************************************)
\* variant of Extend: a document whose (client_id, doc_id) is already in the
\* list replaces the stored one instead of being appended
RECURSIVE Extend_Upsert(_, _)
Extend_Upsert(list, batch) ==
    IF batch = <<>> THEN list
    ELSE LET d == Head(batch)
             same(i) == list[i].client_id = d.client_id /\ list[i].doc_id = d.doc_id
         IN  IF \E i \in 1..Len(list) : same(i)
             THEN Extend_Upsert([i \in 1..Len(list) |-> IF same(i) THEN d ELSE list[i]],
                                Tail(batch))
             ELSE Extend_Upsert(Append(list, d), Tail(batch))

\* self.documents.extend(documents)
Extend(list, batch) == list \o batch

\* the id BrandGuardRAG.ingest_documents gives the i-th document of a batch
\* (i counts from 0, as enumerate does)
HandleOf(doc, i) == doc.client_id \o "_" \o doc.doc_id \o "_" \o ToString(i)

\* the row BrandGuardRAG.ingest_documents adds for the i-th document of a batch
Row(doc, i) ==
    [id |-> HandleOf(doc, i),
     document |-> doc.content,
     metadata |-> [client_id |-> doc.client_id, doc_type |-> doc.doc_type,
                   doc_id |-> doc.doc_id,
                   source_url |-> IF doc.source_url = None THEN "internal"
                                  ELSE doc.source_url]]

\* the rows of one ingest_documents call, in the order of the batch
CollectionAdd(rows, batch) ==
    rows \o [j \in 1..Len(batch) |-> Row(batch[j], j - 1)]

register_client(profile) ==
    /\ call.op = "idle"
    /\ client_profiles' = DictSet(client_profiles, profile.client_id, profile)
    /\ call' = [op |-> "register_client", profile |-> profile,
                previous |-> DictGet(client_profiles, profile.client_id)]
    /\ UNCHANGED <<documents, collection>>

ingest_documents(batch) ==
    /\ call.op = "idle"
    /\ Len(documents) + Len(batch) <= MaxDocs
    /\ documents' = Extend(documents, batch)
    /\ collection' = CollectionAdd(collection, batch)
    /\ call' = [op |-> "ingest_documents", documents |-> batch]
    /\ UNCHANGED client_profiles

(***************************************************************************)
(* retrieve_context                                                        *)
(***************************************************************************)
\* the positions in self.documents of the documents tagged client_id, in
\* list order (a position stands for the Document object stored there)
RECURSIVE ClientDocsFrom(_, _, _)
ClientDocsFrom(docs, client_id, i) ==
    IF i > Len(docs) THEN <<>>
    ELSE (IF docs[i].client_id = client_id THEN <<i>> ELSE <<>>)
         \o ClientDocsFrom(docs, client_id, i + 1)

\* variant of ClientDocs: client ids compared without regard to case
ClientDocs_IgnoreCase(docs, client_id) ==
    SelectSeq([i \in 1..Len(docs) |-> i],
              LAMBDA i : Lower(docs[i].client_id) = Lower(client_id))

ClientDocs(docs, client_id) == ClientDocsFrom(docs, client_id, 1)

\* sum(1 for word in query_words if word in content_words)
RECURSIVE Score(_, _)
Score(query_words, content_words) ==
    IF query_words = <<>> THEN 0
    ELSE (IF In(Head(query_words), content_words) THEN 1 ELSE 0)
         + Score(Tail(query_words), content_words)

\* the (doc, score) pairs with score > 0, in the order of client_docs
RECURSIVE ScoredDocs(_, _, _)
ScoredDocs(docs, client_docs, query_words) ==
    IF client_docs = <<>> THEN <<>>
    ELSE LET i     == Head(client_docs)
             score == Score(query_words, LowerSplit(docs[i].content))
         IN  (IF score > 0 THEN <<[doc |-> i, score |-> score]>> ELSE <<>>)
             \o ScoredDocs(docs, Tail(client_docs), query_words)

\* variant of InsertDesc: x goes in front of the elements of equal score
RECURSIVE InsertDesc_TiesFirst(_, _)
InsertDesc_TiesFirst(sorted, x) ==
    IF sorted = <<>> THEN <<x>>
    ELSE IF Head(sorted).score > x.score
         THEN <<Head(sorted)>> \o InsertDesc_TiesFirst(Tail(sorted), x)
         ELSE <<x>> \o sorted

\* one step of the stable descending sort: x goes behind every element whose
\* score is at least its own
RECURSIVE InsertDesc(_, _)
InsertDesc(sorted, x) ==
    IF sorted = <<>> THEN <<x>>
    ELSE IF Head(sorted).score >= x.score
         THEN <<Head(sorted)>> \o InsertDesc(Tail(sorted), x)
         ELSE <<x>> \o sorted

\* list.sort(key=lambda x: x[1], reverse=True): stable, equal scores keep
\* their order
RECURSIVE SortDesc(_)
SortDesc(list) ==
    IF list = <<>> THEN <<>>
    ELSE InsertDesc(SortDesc(SubSeq(list, 1, Len(list) - 1)), list[Len(list)])

\* scored_docs[:top_k] after the sort
TopDocs(docs, query, client_id, top_k) ==
    Slice(SortDesc(ScoredDocs(docs, ClientDocs(docs, client_id), LowerSplit(query))),
          top_k)

\* what retrieve_context returns; top_docs (the sorted, truncated
\* (doc, score) list it is built from) is kept beside the returned pair
retrieve_context(docs, query, client_id, top_k) ==
    LET top_docs == TopDocs(docs, query, client_id, top_k)
    IN  [retrieved_docs |-> [j \in 1..Len(top_docs) |-> docs[top_docs[j].doc].content],
         retrieved_metadata |->
             [j \in 1..Len(top_docs) |->
                 [doc_id |-> docs[top_docs[j].doc].doc_id,
                  doc_type |-> docs[top_docs[j].doc].doc_type,
                  client_id |-> docs[top_docs[j].doc].client_id]],
         top_docs |-> top_docs]

call_retrieve_context(query, client_id, top_k) ==
    /\ call.op = "idle"
    /\ call' = [op |-> "retrieve_context", query |-> query, client_id |-> client_id,
                top_k |-> top_k, raised |-> "none",
                result |-> retrieve_context(documents, query, client_id, top_k)]
    /\ UNCHANGED <<documents, client_profiles, collection>>

(***************************************************************************)
(* construct_prompt                                                        *)
(***************************************************************************)
\* sep.join(list), as the sequence of its pieces
RECURSIVE Join(_, _)
Join(list, sep) ==
    IF list = <<>> THEN <<>>
    ELSE IF Len(list) = 1 THEN <<list[1]>>
    ELSE <<Head(list), sep>> \o Join(Tail(list), sep)

\* a tokenized text written out: its words joined by one blank
Text(words) == Join(words, " ")

\* zip(retrieved_docs, retrieved_metadata): stops at the shorter list
Zip(xs, ys) ==
    [j \in 1..(IF Len(xs) < Len(ys) THEN Len(xs) ELSE Len(ys)) |-> <<xs[j], ys[j]>>]

\* context += f"[Source: {meta['doc_id']}] {doc}\n\n" over the zipped pairs
RECURSIVE Context(_)
Context(pairs) ==
    IF pairs = <<>> THEN <<>>
    ELSE <<"[Source: ", Head(pairs)[2].doc_id, "] ">> \o Text(Head(pairs)[1])
         \o <<"\n\n">> \o Context(Tail(pairs))

\* variant of SimplePrompt: the avoid_terms line is left out
SimplePrompt_NoAvoid(query, client_id, deliverable_type, profile, context) ==
    <<"BRAND REQUIREMENTS FOR ", Upper(client_id), ":\n- Voice: ",
      profile.brand_voice, "\n- Tone: ", profile.tone, "\n- Required terms: ">>
    \o Join(profile.lexicon, ", ")
    \o <<"\n\nCONTEXT FROM CLIENT DOCUMENTS:\n">>
    \o context
    \o <<"\n\nTASK: Write a ", deliverable_type, " that ">>
    \o Text(query)
    \o <<"\n\nIMPORTANT: Only use information from the provided context. Follow the brand voice exactly.">>

\* variant of SimplePrompt: the task line is written before the context
SimplePrompt_TaskFirst(query, client_id, deliverable_type, profile, context) ==
    <<"BRAND REQUIREMENTS FOR ", Upper(client_id), ":\n- Voice: ",
      profile.brand_voice, "\n- Tone: ", profile.tone, "\n- Required terms: ">>
    \o Join(profile.lexicon, ", ")
    \o <<"\n- Avoid: ">>
    \o Join(profile.avoid_terms, ", ")
    \o <<"\n\nTASK: Write a ", deliverable_type, " that ">>
    \o Text(query)
    \o <<"\n\nCONTEXT FROM CLIENT DOCUMENTS:\n">>
    \o context
    \o <<"\n\nIMPORTANT: Only use information from the provided context. Follow the brand voice exactly.">>

\* the f-string of SimpleBrandGuardRAG.construct_prompt
SimplePrompt(query, client_id, deliverable_type, profile, context) ==
    <<"BRAND REQUIREMENTS FOR ", Upper(client_id), ":\n- Voice: ",
      profile.brand_voice, "\n- Tone: ", profile.tone, "\n- Required terms: ">>
    \o Join(profile.lexicon, ", ")
    \o <<"\n- Avoid: ">>
    \o Join(profile.avoid_terms, ", ")
    \o <<"\n\nCONTEXT FROM CLIENT DOCUMENTS:\n">>
    \o context
    \o <<"\n\nTASK: Write a ", deliverable_type, " that ">>
    \o Text(query)
    \o <<"\n\nIMPORTANT: Only use information from the provided context. Follow the brand voice exactly.">>

\* the f-string of BrandGuardRAG.construct_prompt
BlingPrompt(query, client_id, deliverable_type, profile, context) ==
    <<"<human>: You are writing ", deliverable_type, " content for ", client_id,
      ".\n\nBRAND VOICE REQUIREMENTS:\n- Tone: ", profile.tone, "\n- Voice: ",
      profile.brand_voice, "\n- Required terms: ">>
    \o Join(profile.lexicon, ", ")
    \o <<"\n- Avoid: ">>
    \o Join(profile.avoid_terms, ", ")
    \o <<"\n\nCONTEXT FROM CLIENT DOCUMENTS:\n">>
    \o context
    \o <<"\n\nTASK: ">>
    \o Text(query)
    \o <<"\n\nGenerate content that strictly follows the brand voice and uses only information from the provided context.\n\n<bot>:">>

\* variant of ProfileOf: the registry is searched without regard to case
ProfileOf_IgnoreCase(profiles, client_id) ==
    IF \E c \in DOMAIN profiles : Lower(c) = Lower(client_id)
    THEN profiles[CHOOSE c \in DOMAIN profiles : Lower(c) = Lower(client_id)]
    ELSE None

\* profile = self.client_profiles.get(client_id)
ProfileOf(profiles, client_id) == DictGet(profiles, client_id)

\* SimpleBrandGuardRAG.construct_prompt: the exception raised ("none" when it
\* returns) and the prompt returned; "if not profile" is true of None only,
\* a ClientProfile object being truthy
construct_prompt(profiles, query, client_id, deliverable_type, retrieved_docs, retrieved_metadata) ==
    LET profile == ProfileOf(profiles, client_id)
    IN  IF profile = None
        THEN [raised |-> "ValueError",
              message |-> <<"Client ", client_id, " not registered">>]
        ELSE [raised |-> "none",
              prompt |-> SimplePrompt(query, client_id, deliverable_type, profile,
                                      Context(Zip(retrieved_docs, retrieved_metadata)))]

\* BrandGuardRAG.construct_prompt
BrandGuard_construct_prompt(profiles, query, client_id, deliverable_type, retrieved_docs, retrieved_metadata) ==
    LET profile == DictGet(profiles, client_id)
    IN  IF profile = None
        THEN [raised |-> "ValueError",
              message |-> <<"Client ", client_id, " not registered">>]
        ELSE [raised |-> "none",
              prompt |-> BlingPrompt(query, client_id, deliverable_type, profile,
                                     Context(Zip(retrieved_docs, retrieved_metadata)))]

\* a caller assembles a prompt from what retrieve_context(query, client_id,
\* top_k) returned
call_construct_prompt(query, client_id, deliverable_type, top_k) ==
    LET r == retrieve_context(documents, query, client_id, top_k)
    IN  /\ call.op = "idle"
        /\ call' = [op |-> "construct_prompt", query |-> query,
                    client_id |-> client_id, deliverable_type |-> deliverable_type,
                    retrieved_docs |-> r.retrieved_docs,
                    retrieved_metadata |-> r.retrieved_metadata,
                    result |-> construct_prompt(client_profiles, query, client_id,
                                                deliverable_type, r.retrieved_docs,
                                                r.retrieved_metadata),
                    bling |-> BrandGuard_construct_prompt(
                                  client_profiles, query, client_id,
                                  deliverable_type, r.retrieved_docs,
                                  r.retrieved_metadata)]
        /\ UNCHANGED <<documents, client_profiles, collection>>

(***************************************************************************)
(* generate_content                                                        *)
(***************************************************************************)
\* a piece that is whitespace only
IsBlank(piece) == piece \in {"", " ", "\n", "\n\n"}

\* str.strip() on a text given by its pieces: blank pieces at either end go
RECURSIVE Strip(_)
Strip(pieces) ==
    IF pieces = <<>> THEN <<>>
    ELSE IF IsBlank(Head(pieces)) THEN Strip(Tail(pieces))
    ELSE IF IsBlank(pieces[Len(pieces)])
         THEN Strip(SubSeq(pieces, 1, Len(pieces) - 1))
    ELSE pieces

\* SimpleBrandGuardRAG.simulate_llm_response: the canned text for
\* alchemy-web3 when the prompt mentions EIP-7702, else the fallback
simulate_llm_response(profiles, prompt, client_id) ==
    IF In("EIP-7702", prompt) /\ client_id = "alchemy-web3"
    THEN <<"Alchemy now supports EIP-7702, [...] that define the platform.">>
    ELSE <<"[Simulated ", DictGet(profiles, client_id).brand_voice,
           " response for ", client_id,
           "] Content generated following brand guidelines with technical focus on developer benefits.">>

\* variant of Sources: the doc_ids in reverse order
Sources_Reversed(retrieved_metadata) ==
    [j \in 1..Len(retrieved_metadata) |->
        retrieved_metadata[Len(retrieved_metadata) + 1 - j].doc_id]

\* [meta['doc_id'] for meta in retrieved_metadata]
Sources(retrieved_metadata) ==
    [j \in 1..Len(retrieved_metadata) |-> retrieved_metadata[j].doc_id]

\* variant of generate_content: the profile is looked up before the
\* retrieval result is tested
generate_content_ProfileFirst(docs, profiles, query, client_id, deliverable_type) ==
    LET r == retrieve_context(docs, query, client_id, DefaultTopK)
        p == construct_prompt(profiles, query, client_id, deliverable_type,
                              r.retrieved_docs, r.retrieved_metadata)
    IN  IF p.raised # "none"
        THEN [raised |-> p.raised, message |-> p.message]
        ELSE IF r.retrieved_docs = <<>>
        THEN [raised |-> "none",
              returned |-> [content |-> <<"Insufficient context to generate content.">>,
                            sources |-> <<>>,
                            error |-> "No relevant documents found"]]
        ELSE [raised |-> "none",
              returned |-> [content |-> Strip(simulate_llm_response(profiles, p.prompt,
                                                                    client_id)),
                            sources |-> Sources(r.retrieved_metadata),
                            client_id |-> client_id,
                            deliverable_type |-> deliverable_type,
                            context_used |-> Len(r.retrieved_docs)]]

\* SimpleBrandGuardRAG.generate_content: the exception that leaves it
\* ("none" when it returns) and the dict it returns
generate_content(docs, profiles, query, client_id, deliverable_type) ==
    LET r == retrieve_context(docs, query, client_id, DefaultTopK)
        p == construct_prompt(profiles, query, client_id, deliverable_type,
                              r.retrieved_docs, r.retrieved_metadata)
    IN  IF r.retrieved_docs = <<>>
        THEN [raised |-> "none",
              returned |-> [content |-> <<"Insufficient context to generate content.">>,
                            sources |-> <<>>,
                            error |-> "No relevant documents found"]]
        ELSE IF p.raised # "none"
        THEN [raised |-> p.raised, message |-> p.message]
        ELSE [raised |-> "none",
              returned |-> [content |-> Strip(simulate_llm_response(profiles, p.prompt,
                                                                    client_id)),
                            sources |-> Sources(r.retrieved_metadata),
                            client_id |-> client_id,
                            deliverable_type |-> deliverable_type,
                            context_used |-> Len(r.retrieved_docs)]]

call_generate_content(query, client_id, deliverable_type) ==
    /\ call.op = "idle"
    /\ call' = [op |-> "generate_content", query |-> query, client_id |-> client_id,
                deliverable_type |-> deliverable_type,
                result |-> generate_content(documents, client_profiles, query,
                                            client_id, deliverable_type)]
    /\ UNCHANGED <<documents, client_profiles, collection>>

(***************************************************************************)
(* Specification                                                           *)
(***************************************************************************)
\* control is back with the caller
Return ==
    /\ call.op # "idle"
    /\ call' = [op |-> "idle"]
    /\ UNCHANGED <<documents, client_profiles, collection>>

Init ==
    /\ documents = <<>>
    /\ client_profiles = <<>>
    /\ collection = <<>>
    /\ call = [op |-> "idle"]

Next ==
    \/ \E profile \in Profiles : register_client(profile)
    \/ \E batch \in Batches : ingest_documents(batch)
    \/ \E query \in Queries, client_id \in ClientIds, top_k \in TopKs :
          call_retrieve_context(query, client_id, top_k)
    \/ \E query \in Queries, client_id \in ClientIds,
          deliverable_type \in DeliverableTypes, top_k \in TopKs :
          call_construct_prompt(query, client_id, deliverable_type, top_k)
    \/ \E query \in Queries, client_id \in ClientIds,
          deliverable_type \in DeliverableTypes :
          call_generate_content(query, client_id, deliverable_type)
    \/ Return

Spec == Init /\ [][Next]_vars

(***************************************************************************)
(* Properties                                                              *)
(***************************************************************************)
\* the positions of the stored documents tagged client_id that score above
\* zero for query
Matching(query, client_id) ==
    { i \in 1..Len(documents) :
        /\ documents[i].client_id = client_id
        /\ Score(LowerSplit(query), LowerSplit(documents[i].content)) > 0 }

\* C1 (isolation): every document retrieve_context(query, A, top_k) returns
\* is a stored document whose client_id is exactly A, whatever query, A and
\* top_k are and whatever other clients' documents contain.
C1_Isolation ==
    call.op = "retrieve_context" =>
        LET r == call.result
        IN  /\ Len(r.retrieved_docs) = Len(r.top_docs)
            /\ Len(r.retrieved_metadata) = Len(r.top_docs)
            /\ \A j \in 1..Len(r.top_docs) :
                  /\ r.top_docs[j].doc \in 1..Len(documents)
                  /\ documents[r.top_docs[j].doc].client_id = call.client_id
                  /\ r.retrieved_metadata[j].client_id = call.client_id
                  /\ r.retrieved_docs[j] = documents[r.top_docs[j].doc].content

\* C1 witness: a retrieval returned a document while the store holds another
\* client's document that matches the same query.
C1_Witness ==
    /\ call.op = "retrieve_context"
    /\ call.result.retrieved_docs # <<>>
    /\ \E c \in ClientIds \ {call.client_id} : Matching(call.query, c) # {}

\* C2 (ranking order): the returned documents are in descending score order,
\* and of two returned documents with equal score the one ingested first
\* comes first; each carries the score of the document it stands for.
C2_RankingOrder ==
    call.op = "retrieve_context" =>
        LET t == call.result.top_docs
        IN  /\ \A j \in 1..Len(t) :
                  t[j].score = Score(LowerSplit(call.query),
                                     LowerSplit(documents[t[j].doc].content))
            /\ \A i \in 1..Len(t), j \in 1..Len(t) :
                  i < j => \/ t[i].score > t[j].score
                           \/ t[i].score = t[j].score /\ t[i].doc < t[j].doc

\* C2 witness: a result of three documents in which two tie and the third,
\* ingested after one of them, was moved in front.
C2_Witness ==
    /\ call.op = "retrieve_context"
    /\ LET t == call.result.top_docs
       IN  /\ Len(t) = 3
           /\ \E j \in 1..2 : t[j].score = t[j + 1].score
           /\ \E j \in 1..2 : t[j].doc > t[j + 1].doc

\* C3 (bounding): for top_k >= 1 the result has at most top_k documents and
\* at most as many as the client has documents scoring above zero.
C3_Bounding ==
    (call.op = "retrieve_context" /\ call.top_k >= 1) =>
        /\ Len(call.result.retrieved_docs) <= call.top_k
        /\ Len(call.result.retrieved_docs)
              <= Cardinality(Matching(call.query, call.client_id))

\* C3 witness: more documents match than top_k allows, and top_k came back.
C3_Witness ==
    /\ call.op = "retrieve_context"
    /\ call.top_k >= 1
    /\ Cardinality(Matching(call.query, call.client_id)) > call.top_k
    /\ Len(call.result.retrieved_docs) = call.top_k

\* C4 (empty-context refusal), as claimed: construct_prompt given an empty
\* retrieval result for a registered client raises EmptyContextError and
\* returns no prompt.
C4_EmptyContextRefusal ==
    (/\ call.op = "construct_prompt"
     /\ call.retrieved_docs = <<>>
     /\ call.client_id \in DOMAIN client_profiles) =>
        /\ call.result.raised = "EmptyContextError"
        /\ "prompt" \notin DOMAIN call.result

\* C5 (unknown client): construct_prompt raises the not-registered error and
\* returns no prompt whenever client_id has no registered profile, whatever
\* the query, the deliverable type and the retrieval result.
C5_UnknownClient ==
    (call.op = "construct_prompt" /\ call.client_id \notin DOMAIN client_profiles) =>
        /\ call.result.raised = "ValueError"
        /\ "prompt" \notin DOMAIN call.result
        /\ call.bling.raised = "ValueError"
        /\ "prompt" \notin DOMAIN call.bling

\* C5 witness: the error was raised for an unregistered client whose
\* retrieval result was not empty, while another client is registered.
C5_Witness ==
    /\ call.op = "construct_prompt"
    /\ call.client_id \notin DOMAIN client_profiles
    /\ client_profiles # <<>>
    /\ call.retrieved_docs # <<>>
    /\ call.result.raised = "ValueError"

\* the doc_ids that follow the "[Source: " pieces of a prompt, in order
RECURSIVE SourceTags(_)
SourceTags(prompt) ==
    IF Len(prompt) < 2 THEN <<>>
    ELSE IF Head(prompt) = "[Source: "
         THEN <<prompt[2]>> \o SourceTags(Tail(Tail(prompt)))
         ELSE SourceTags(Tail(prompt))

\* every element of list is a piece of prompt
ContainsAll(prompt, list) == \A j \in 1..Len(list) : In(list[j], prompt)

\* C6 (prompt completeness): a prompt construct_prompt returns holds every
\* entry of the profile's lexicon, every entry of its avoid_terms, and one
\* source tag per retrieved document, carrying that document's doc_id.
C6_PromptCompleteness ==
    (call.op = "construct_prompt" /\ call.result.raised = "none") =>
        LET profile == client_profiles[call.client_id]
        IN  /\ ContainsAll(call.result.prompt, profile.lexicon)
            /\ ContainsAll(call.result.prompt, profile.avoid_terms)
            /\ SourceTags(call.result.prompt) = Sources(call.retrieved_metadata)
            /\ call.bling.raised = "none"
            /\ ContainsAll(call.bling.prompt, profile.lexicon)
            /\ ContainsAll(call.bling.prompt, profile.avoid_terms)
            /\ SourceTags(call.bling.prompt) = Sources(call.retrieved_metadata)

\* C6 witness: a prompt was built for a profile with two required terms and
\* an avoided term from two retrieved documents.
C6_Witness ==
    /\ call.op = "construct_prompt"
    /\ call.result.raised = "none"
    /\ Len(client_profiles[call.client_id].lexicon) >= 2
    /\ Len(client_profiles[call.client_id].avoid_terms) >= 1
    /\ Len(call.retrieved_metadata) >= 2

\* C7 (top_k validation), as claimed: retrieve_context called with
\* top_k <= 0 raises InvalidArgumentError and returns no documents.
C7_TopKValidation ==
    (call.op = "retrieve_context" /\ call.top_k <= 0) =>
        /\ call.raised = "InvalidArgumentError"
        /\ call.result.retrieved_docs = <<>>

\* C8 (last write wins): a register_client call makes the lookup of its
\* client_id return exactly the profile passed, and changes the lookup of no
\* other client_id; no other operation changes any lookup.
C8_LastWriteWins ==
    [][ IF call'.op = "register_client"
        THEN /\ DictGet(client_profiles', call'.profile.client_id) = call'.profile
             /\ \A c \in (DOMAIN client_profiles \cup DOMAIN client_profiles'
                          \cup ClientIds) \ {call'.profile.client_id} :
                   DictGet(client_profiles', c) = DictGet(client_profiles, c)
        ELSE client_profiles' = client_profiles ]_vars

\* C8 witness: a register_client call replaced a different profile of the
\* same client while another client was registered.
C8_Witness ==
    /\ call.op = "register_client"
    /\ call.previous # None
    /\ call.previous # call.profile
    /\ client_profiles[call.profile.client_id] = call.profile
    /\ DOMAIN client_profiles # {call.profile.client_id}

\* C9 (unique handles), as claimed: the ids given to the ingested documents
\* are pairwise distinct.
C9_UniqueHandles ==
    \A i \in 1..Len(collection), j \in 1..Len(collection) :
        i # j => collection[i].id # collection[j].id

\* C10 (append-only ingestion): an ingest_documents call leaves every stored
\* entry at its position, puts the batch behind them in its order, and so
\* grows the store by the batch length, duplicates of (client_id, doc_id)
\* included.
C10_AppendOnly ==
    [][ call'.op = "ingest_documents" =>
          LET batch == call'.documents
              n     == Len(documents)
          IN  /\ Len(documents') = n + Len(batch)
              /\ \A i \in 1..n : documents'[i] = documents[i]
              /\ \A j \in 1..Len(batch) : documents'[n + j] = batch[j] ]_vars

\* C10 witness: the last batch held a document whose (client_id, doc_id) was
\* already stored, and both entries are in the store.
C10_Witness ==
    /\ call.op = "ingest_documents"
    /\ LET n == Len(documents) - Len(call.documents)
       IN  /\ n >= 1
           /\ \E i \in 1..n, j \in (n + 1)..Len(documents) :
                 /\ documents[i].client_id = documents[j].client_id
                 /\ documents[i].doc_id = documents[j].doc_id

\* a generate_content call that returned the generated content
Succeeded ==
    /\ call.op = "generate_content"
    /\ call.result.raised = "none"
    /\ "error" \notin DOMAIN call.result.returned

\* C11 (provenance order): the sources of a successful generate_content call
\* are the doc_ids of the documents retrieve_context returns for the same
\* query and client, one per document, in its ranked order.
C11_ProvenanceOrder ==
    Succeeded =>
        LET t == retrieve_context(documents, call.query, call.client_id,
                                  DefaultTopK).top_docs
            sources == call.result.returned.sources
        IN  /\ Len(sources) = Len(t)
            /\ Len(t) >= 1
            /\ \A j \in 1..Len(t) : sources[j] = documents[t[j].doc].doc_id

\* C11 witness: a successful call whose three sources differ and whose ranked
\* order is not the ingestion order.
C11_Witness ==
    /\ Succeeded
    /\ LET t == retrieve_context(documents, call.query, call.client_id,
                                 DefaultTopK).top_docs
           sources == call.result.returned.sources
       IN  /\ Len(sources) = 3
           /\ Cardinality({sources[j] : j \in 1..3}) = 3
           /\ \E j \in 1..2 : t[j].doc > t[j + 1].doc

\* C12 (result shape), as claimed: every record generate_content returns
\* carries client_id and deliverable_type, and a failed call's record has an
\* error discriminant and no content.
C12_FailureResultShape ==
    (call.op = "generate_content" /\ call.result.raised = "none") =>
        LET returned == call.result.returned
            failed   == call.result.returned.sources = <<>>
        IN  /\ {"client_id", "deliverable_type"} \subseteq DOMAIN returned
            /\ failed => "error" \in DOMAIN returned \/ "error_kind" \in DOMAIN returned
            /\ ~("content" \in DOMAIN returned
                 /\ ("error" \in DOMAIN returned \/ "error_kind" \in DOMAIN returned))

\* C14 (empty query), as claimed: retrieve_context and generate_content
\* reject an empty query with InvalidArgumentError instead of reporting an
\* empty or insufficient-context result.
C14_EmptyQueryRejected ==
    /\ (call.op = "retrieve_context" /\ call.query = <<>>) =>
          call.raised = "InvalidArgumentError"
    /\ (call.op = "generate_content" /\ call.query = <<>>) =>
          call.result.raised = "InvalidArgumentError"

\* the position of the first piece of seq equal to x, 0 when there is none
IndexOf(seq, x) ==
    IF In(x, seq)
    THEN CHOOSE i \in 1..Len(seq) : seq[i] = x /\ \A j \in 1..(i - 1) : seq[j] # x
    ELSE 0

\* every element of list is a piece of prompt at a position in lo..hi
ContainsAllIn(prompt, list, lo, hi) ==
    \A j \in 1..Len(list) : \E i \in lo..hi : i \in 1..Len(prompt) /\ prompt[i] = list[j]

\* the pieces that open the four sections in the two templates
SimpleHeads ==
    [brand |-> "BRAND REQUIREMENTS FOR ",
     evidence |-> "\n\nCONTEXT FROM CLIENT DOCUMENTS:\n",
     task |-> "\n\nTASK: Write a ",
     rule |-> "\n\nIMPORTANT: Only use information from the provided context. Follow the brand voice exactly."]

BlingHeads ==
    [brand |-> ".\n\nBRAND VOICE REQUIREMENTS:\n- Tone: ",
     evidence |-> "\n\nCONTEXT FROM CLIENT DOCUMENTS:\n",
     task |-> "\n\nTASK: ",
     rule |-> "\n\nGenerate content that strictly follows the brand voice and uses only information from the provided context.\n\n<bot>:"]

\* the four sections of prompt follow each other in the order brand
\* constraints, evidence, task, rule, the rule closing the prompt; the brand
\* section holds the profile's fields, the evidence section one source tag
\* per retrieved document in retrieval order, the task section ends with the
\* raw query
SectionsInOrder(prompt, heads, profile, query, retrieved_metadata) ==
    LET a == IndexOf(prompt, heads.brand)
        b == IndexOf(prompt, heads.evidence)
        c == IndexOf(prompt, heads.task)
        d == IndexOf(prompt, heads.rule)
    IN  /\ 1 <= a /\ a < b /\ b < c /\ c < d /\ d = Len(prompt)
        /\ ContainsAllIn(prompt, <<profile.brand_voice, profile.tone>>, a + 1, b - 1)
        /\ ContainsAllIn(prompt, profile.lexicon, a + 1, b - 1)
        /\ ContainsAllIn(prompt, profile.avoid_terms, a + 1, b - 1)
        /\ SourceTags(SubSeq(prompt, b + 1, c - 1)) = Sources(retrieved_metadata)
        /\ SourceTags(SubSeq(prompt, 1, b)) = <<>>
        /\ SourceTags(SubSeq(prompt, c, d)) = <<>>
        /\ d - c - 1 >= Len(Text(query))
        /\ SubSeq(prompt, d - Len(Text(query)), d - 1) = Text(query)

\* nothing precedes the brand section and the task section names the
\* deliverable type
StartsWithBrandAndTaskNamesType(prompt, heads, deliverable_type) ==
    /\ IndexOf(prompt, heads.brand) = 1
    /\ \E i \in (IndexOf(prompt, heads.task) + 1)..(IndexOf(prompt, heads.rule) - 1) :
          prompt[i] = deliverable_type

\* C13 (section order), as claimed: every prompt construct_prompt returns, in
\* either class, starts with the brand constraints, goes on with the
\* evidence in retrieval order and the task instruction holding
\* deliverable_type and the raw query, and ends with the rule.
C13_SectionOrder_AsClaimed ==
    (call.op = "construct_prompt" /\ call.result.raised = "none") =>
        LET profile == client_profiles[call.client_id]
        IN  /\ SectionsInOrder(call.result.prompt, SimpleHeads, profile, call.query,
                               call.retrieved_metadata)
            /\ StartsWithBrandAndTaskNamesType(call.result.prompt, SimpleHeads,
                                               call.deliverable_type)
            /\ SectionsInOrder(call.bling.prompt, BlingHeads, profile, call.query,
                               call.retrieved_metadata)
            /\ StartsWithBrandAndTaskNamesType(call.bling.prompt, BlingHeads,
                                               call.deliverable_type)

\* C13 (section order), amended: in both classes the four sections follow
\* each other in the claimed order, the evidence in retrieval order, the task
\* holding the raw query. SimpleBrandGuardRAG's prompt starts with the brand
\* constraints and its task names deliverable_type; BrandGuardRAG's prompt
\* opens with the "<human>:" sentence that names deliverable_type and
\* client_id, and its task holds the query alone.
C13_SectionOrder ==
    (call.op = "construct_prompt" /\ call.result.raised = "none") =>
        LET profile == client_profiles[call.client_id]
            bling   == call.bling.prompt
        IN  /\ SectionsInOrder(call.result.prompt, SimpleHeads, profile, call.query,
                               call.retrieved_metadata)
            /\ StartsWithBrandAndTaskNamesType(call.result.prompt, SimpleHeads,
                                               call.deliverable_type)
            /\ SectionsInOrder(bling, BlingHeads, profile, call.query,
                               call.retrieved_metadata)
            /\ SubSeq(bling, 1, IndexOf(bling, BlingHeads.brand) - 1)
                  = <<"<human>: You are writing ", call.deliverable_type,
                      " content for ", call.client_id>>
            /\ SubSeq(bling, IndexOf(bling, BlingHeads.task) + 1, Len(bling) - 1)
                  = Text(call.query)

\* C13 witness: a prompt was built from two retrieved documents whose ranked
\* order is not their order of doc_id, for a two-word query.
C13_Witness ==
    /\ call.op = "construct_prompt"
    /\ call.result.raised = "none"
    /\ Len(call.query) = 2
    /\ Len(call.retrieved_metadata) = 2
    /\ call.retrieved_metadata[1].doc_id = "d2"
    /\ call.retrieved_metadata[2].doc_id = "d1"

\* the set of the elements of a list
Elements(list) == { list[i] : i \in 1..Len(list) }

\* the number of distinct case-folded words of query that are among the
\* case-folded words of content
DistinctOverlap(query, content) ==
    Cardinality(Elements(LowerSplit(query)) \cap Elements(LowerSplit(content)))

\* C15 (reference scoring), as claimed: the score of a returned document is
\* the number of distinct case-folded query words among its case-folded
\* words, and the client's documents returned are those with such a score
\* above zero (all of them when top_k leaves room).
C15_ReferenceScoring ==
    call.op = "retrieve_context" =>
        LET t == call.result.top_docs
            returned == { t[j].doc : j \in 1..Len(t) }
        IN  /\ \A j \in 1..Len(t) :
                  t[j].score = DistinctOverlap(call.query, documents[t[j].doc].content)
            /\ \A i \in returned : DistinctOverlap(call.query, documents[i].content) > 0
            /\ Len(t) < call.top_k =>
                  \A i \in 1..Len(documents) :
                      (/\ documents[i].client_id = call.client_id
                       /\ DistinctOverlap(call.query, documents[i].content) > 0)
                          => i \in returned

\* C16 (check order in generate_content): for a client without a registered
\* profile, generate_content returns the insufficient-context record with
\* empty sources and raises nothing when no document of that client matches
\* the query, and lets the not-registered ValueError escape, returning no
\* record, when one does; it raises in no other case.
C16_CheckOrder ==
    call.op = "generate_content" =>
        LET unregistered == call.client_id \notin DOMAIN client_profiles
            matches      == Matching(call.query, call.client_id) # {}
            result       == call.result
        IN  /\ (unregistered /\ ~matches) =>
                  /\ result.raised = "none"
                  /\ "error" \in DOMAIN result.returned
                  /\ result.returned.sources = <<>>
            /\ (unregistered /\ matches) =>
                  /\ result.raised = "ValueError"
                  /\ "returned" \notin DOMAIN result
            /\ result.raised # "none" => unregistered /\ matches

\* C16 witness: a client without profile has documents in the store, none of
\* them matches the query, and the call returned the insufficient-context
\* record while another client is registered.
C16_Witness ==
    /\ call.op = "generate_content"
    /\ call.client_id \notin DOMAIN client_profiles
    /\ client_profiles # <<>>
    /\ call.query # <<>>
    /\ \E i \in 1..Len(documents) : documents[i].client_id = call.client_id
    /\ Matching(call.query, call.client_id) = {}
    /\ call.result.raised = "none"
    /\ "error" \in DOMAIN call.result.returned


====
